---- MODULE Spec2Model ----
(***************************************************************************)
(* Model of lustreapi.py: the HSM flag codec, the stripe query, the        *)
(* error-translating wrappers around the native library, and the stderr    *)
(* capture that setstripe puts around llapi_file_open.                     *)
(*                                                                         *)
(* Four specifications share the variables:                                *)
(*   SpecCodec   the pure codec functions applied to bounded inputs        *)
(*   SpecStripe  getstripe called over and over                            *)
(*   SpecSingle  one thread calling the other operations in sequence       *)
(*   Spec        two threads calling setstripe concurrently                *)
(***************************************************************************)
EXTENDS Integers, Sequences, FiniteSets, TLC

(* ---- bounds of the model ---- *)
MaxFlagsLen == 2      \* longest arbitrary flag list given to the encoder
MaskBits == 8         \* every mask below 2^MaskBits is tried
MaxLen == 2           \* longest byte string the native call writes to fd 2
MaxCalls == 2         \* setstripe calls of the single thread of SpecSingle
ConcCalls == 1        \* setstripe calls per thread under Spec
MaxStripeCount == 2   \* largest in-range lmm_stripe_count the native reports
MaxOstIdx == 1        \* l_ost_idx values range over 0 .. MaxOstIdx

(* ---- program constants ---- *)
ENODATA == 61         \* the code of LU-541
CHUNK == 1024         \* os.read size in readData
LOV_OBJECTS == 2000   \* length of lov_user_md_v1.lmm_objects
STDERR == 2           \* the descriptor captureStderr redirects

VARIABLES
  \* codec
  cpc, flags, hus_states, state, states,
  \* process-wide state
  py3, fdt, pipebuf, npipes,
  \* per thread
  pc, cap, wrote, nat, ret, outcome, ncalls, nacq, nrel,
  \* the operation in progress or last finished, and what it built
  op, lovdata, stripeobj, fid, hsm, natargs

codecVars == <<cpc, flags, hus_states, state, states>>
procVars == <<py3, fdt, pipebuf, npipes>>
thrVars == <<pc, cap, wrote, nat, ret, outcome, ncalls, nacq, nrel>>
callVars == <<op, lovdata, stripeobj, fid, hsm, natargs>>
vars == <<codecVars, procVars, thrVars, callVars>>

(***************************************************************************)
(* Integer helpers                                                         *)
(***************************************************************************)
RECURSIVE Pow2(_)
Pow2(n) == IF n = 0 THEN 1 ELSE 2 * Pow2(n - 1)

Min(a, b) == IF a <= b THEN a ELSE b

Range(s) == {s[i] : i \in DOMAIN s}

\* Python's & on non-negative integers
RECURSIVE BitAnd(_, _)
BitAnd(a, b) ==
  IF a = 0 \/ b = 0 THEN 0
  ELSE (a % 2) * (b % 2) + 2 * BitAnd(a \div 2, b \div 2)

\* Python's | on non-negative integers
RECURSIVE BitOr(_, _)
BitOr(a, b) ==
  IF a = 0 THEN b
  ELSE IF b = 0 THEN a
  ELSE (IF a % 2 = 1 \/ b % 2 = 1 THEN 1 ELSE 0) + 2 * BitOr(a \div 2, b \div 2)

(***************************************************************************)
(* HSM flag codec                                                          *)
(***************************************************************************)
\* The table; hex holds the digits of the string after "0x".
HSM_FLAGS ==
  << [name |-> "NONE",      hex |-> <<0, 0, 0, 0, 0, 0, 0, 0>>],
     [name |-> "EXISTS",    hex |-> <<0, 0, 0, 0, 0, 0, 0, 1>>],
     [name |-> "DIRTY",     hex |-> <<0, 0, 0, 0, 0, 0, 0, 2>>],
     [name |-> "RELEASED",  hex |-> <<0, 0, 0, 0, 0, 0, 0, 4>>],
     [name |-> "ARCHIVED",  hex |-> <<0, 0, 0, 0, 0, 0, 0, 8>>],
     [name |-> "NORELEASE", hex |-> <<0, 0, 0, 0, 0, 0, 1, 0>>],
     [name |-> "NOARCHIVE", hex |-> <<0, 0, 0, 0, 0, 0, 2, 0>>],
     [name |-> "LOST",      hex |-> <<0, 0, 0, 0, 0, 0, 4, 0>>] >>

FlagNames == {HSM_FLAGS[i].name : i \in DOMAIN HSM_FLAGS}

\* int(s, 16): the digits most significant first
RECURSIVE Int16(_)
Int16(digits) ==
  IF digits = <<>> THEN 0
  ELSE 16 * Int16(SubSeq(digits, 1, Len(digits) - 1)) + digits[Len(digits)]

\* int(flag[1], 16) of each table entry
FlagValue == [i \in DOMAIN HSM_FLAGS |-> Int16(HSM_FLAGS[i].hex)]

\* HSM_state.__init__: self.states, in table order
RECURSIVE DecodeFrom(_, _)
DecodeFrom(i, st) ==
  IF i > Len(HSM_FLAGS) THEN <<>>
  ELSE (IF BitAnd(st, FlagValue[i]) # 0
          THEN <<HSM_FLAGS[i].name>> ELSE <<>>) \o DecodeFrom(i + 1, st)

\* the decoder with == written for &
DecodeByEquality(st) ==
  SelectSeq([i \in DOMAIN HSM_FLAGS |-> HSM_FLAGS[i].name],
            LAMBDA n : \E i \in DOMAIN HSM_FLAGS :
                         HSM_FLAGS[i].name = n /\ st = FlagValue[i] /\ st # 0)

HSM_state_init(st) == DecodeFrom(1, st)

\* hsm_state_from_flags: the inner loop over the input list for one table entry
RECURSIVE InnerLoop(_, _, _, _)
InnerLoop(i, fl, j, acc) ==
  IF j > Len(fl) THEN acc
  ELSE InnerLoop(i, fl, j + 1,
                 IF HSM_FLAGS[i].name = fl[j] THEN acc + FlagValue[i] ELSE acc)

\* hsm_state_from_flags: the outer loop over the table
RECURSIVE OuterLoop(_, _, _)
OuterLoop(i, fl, acc) ==
  IF i > Len(HSM_FLAGS) THEN acc
  ELSE OuterLoop(i + 1, fl, InnerLoop(i, fl, 1, acc))

\* int(s): the digits read in base 10
RECURSIVE Int10(_)
Int10(digits) ==
  IF digits = <<>> THEN 0
  ELSE 10 * Int10(SubSeq(digits, 1, Len(digits) - 1)) + digits[Len(digits)]

\* the encoder with the table's values read in base 10
RECURSIVE EncodeBase10From(_, _)
EncodeBase10From(i, fl) ==
  IF i > Len(HSM_FLAGS) THEN 0
  ELSE Int10(HSM_FLAGS[i].hex) * Cardinality({j \in DOMAIN fl : fl[j] = HSM_FLAGS[i].name})
       + EncodeBase10From(i + 1, fl)

EncodeBase10(fl) == EncodeBase10From(1, fl)

hsm_state_from_flags(fl) == OuterLoop(1, fl, 0)

(* ---- inputs of the codec ---- *)
\* the masks tried: every value of the low MaskBits bits of hus_states, one
\* bit more than the table uses
Masks == 0 .. Pow2(MaskBits) - 1

\* a name the table does not hold
InputNames == FlagNames \cup {"BOGUS"}

SeqsUpTo(S, n) == UNION {[1 .. k -> S] : k \in 0 .. n}

\* the names of F listed in table order
RECURSIVE ListFrom(_, _)
ListFrom(i, F) ==
  IF i > Len(HSM_FLAGS) THEN <<>>
  ELSE (IF HSM_FLAGS[i].name \in F THEN <<HSM_FLAGS[i].name>> ELSE <<>>)
       \o ListFrom(i + 1, F)

FlagInputs == SeqsUpTo(InputNames, MaxFlagsLen) \cup {ListFrom(1, F) : F \in SUBSET FlagNames}

NoDup(s) == \A i, j \in DOMAIN s : s[i] = s[j] => i = j

\* the bitwise OR of the bits of the table entries whose name occurs in fl
RECURSIVE OrOfMatched(_, _)
OrOfMatched(i, fl) ==
  IF i > Len(HSM_FLAGS) THEN 0
  ELSE BitOr(IF HSM_FLAGS[i].name \in Range(fl) THEN FlagValue[i] ELSE 0,
             OrOfMatched(i + 1, fl))

AllFlagBits == OrOfMatched(1, [i \in DOMAIN HSM_FLAGS |-> HSM_FLAGS[i].name])

(***************************************************************************)
(* Codec specification: the two pure functions applied to bounded inputs   *)
(***************************************************************************)
Threads == {1, 2}

NoCap == [pipeout |-> -1, pipein |-> -1, oldstderr |-> -1, contents |-> <<>>]
NoOutcome == [kind |-> "none", errno |-> 0]
NoLov == [lmm_stripe_size |-> 0, lmm_stripe_count |-> 0, lmm_stripe_offset |-> 0,
          lmm_objects |-> <<>>]
\* stripeObj.__init__ (lovdata is the variable of that name)
stripeObj_init == [stripecount |-> -1, stripesize |-> 0, stripeoffset |-> -1,
                   ostobjects |-> <<>>]
NoFid == [seq |-> 0, oid |-> 0, ver |-> 0]
NoHsm == [archive_id |-> 0, states |-> <<>>]
NoArgs == [setmask |-> 0, clearmask |-> 0, archive_id |-> 0]

Closed == [kind |-> "closed", id |-> 0]
Tty == [kind |-> "tty", id |-> 0]
Std(i) == [kind |-> "std", id |-> i]
PipeR(p) == [kind |-> "pipe_r", id |-> p]
PipeW(p) == [kind |-> "pipe_w", id |-> p]
File == [kind |-> "file", id |-> 0]

NFds == 3 + 4 * (MaxCalls + 2 * ConcCalls)
FdRange == 0 .. NFds - 1
NPipes == MaxCalls + 2 * ConcCalls

\* descriptors 0, 1, 2 as the process starts
InitFdt == [f \in FdRange |-> IF f = STDERR THEN Tty ELSE IF f < STDERR THEN Std(f) ELSE Closed]

CodecIdle ==
  /\ cpc = "off" /\ flags = <<>> /\ hus_states = 0 /\ state = 0 /\ states = <<>>

ProcInit ==
  /\ fdt = InitFdt
  /\ pipebuf = [p \in 1 .. NPipes |-> <<>>]
  /\ npipes = 0

ThreadsInit ==
  /\ pc = [t \in Threads |-> "idle"]
  /\ cap = [t \in Threads |-> NoCap]
  /\ wrote = [t \in Threads |-> <<>>]
  /\ nat = [t \in Threads |-> "none"]
  /\ ret = [t \in Threads |-> 0]
  /\ outcome = [t \in Threads |-> NoOutcome]
  /\ ncalls = [t \in Threads |-> 0]
  /\ nacq = [t \in Threads |-> 0]
  /\ nrel = [t \in Threads |-> 0]

CallInit ==
  /\ op = [t \in Threads |-> "none"] /\ lovdata = NoLov /\ stripeobj = stripeObj_init
  /\ fid = NoFid /\ hsm = NoHsm /\ natargs = NoArgs

InitCodec ==
  /\ \/ cpc = "flags" /\ flags \in FlagInputs /\ hus_states = 0
     \/ cpc = "mask" /\ flags = <<>> /\ hus_states \in Masks
  /\ state = 0 /\ states = <<>>
  /\ py3 = TRUE /\ ProcInit /\ ThreadsInit /\ CallInit

\* state = hsm_state_from_flags(flags)
EncodeFlags ==
  /\ cpc = "flags"
  /\ state' = hsm_state_from_flags(flags)
  /\ cpc' = "encoded"
  /\ UNCHANGED <<flags, hus_states, states, procVars, thrVars, callVars>>

\* states = HSM_state(hus).states for hus.hus_states = state
DecodeEncoded ==
  /\ cpc = "encoded"
  /\ states' = HSM_state_init(state)
  /\ cpc' = "decenc"
  /\ UNCHANGED <<flags, hus_states, state, procVars, thrVars, callVars>>

\* states = HSM_state(hus).states for hus.hus_states = hus_states
DecodeMask ==
  /\ cpc = "mask"
  /\ states' = HSM_state_init(hus_states)
  /\ cpc' = "decoded"
  /\ UNCHANGED <<flags, hus_states, state, procVars, thrVars, callVars>>

\* state = hsm_state_from_flags(states)
EncodeDecoded ==
  /\ cpc = "decoded"
  /\ state' = hsm_state_from_flags(states)
  /\ cpc' = "encdec"
  /\ UNCHANGED <<flags, hus_states, states, procVars, thrVars, callVars>>

NextCodec == EncodeFlags \/ DecodeEncoded \/ DecodeMask \/ EncodeDecoded

SpecCodec == InitCodec /\ [][NextCodec]_vars

(***************************************************************************)
(* Descriptors and pipes of the process                                    *)
(***************************************************************************)
\* the descriptor the kernel hands out next
LowestFree(tab) ==
  CHOOSE f \in FdRange : tab[f] = Closed /\ \A g \in FdRange : g < f => tab[g] # Closed

HasReader(tab, p) == \E f \in FdRange : tab[f] = PipeR(p)

HasWriter(tab, p) == \E f \in FdRange : tab[f] = PipeW(p)

\* a pipe no descriptor can read any more holds nothing that matters
Discard(tab, bufs) == [p \in DOMAIN bufs |-> IF HasReader(tab, p) THEN bufs[p] ELSE <<>>]

\* a write of B to descriptor fd: into the pipe if fd is a write end that
\* still has a reader (EPIPE otherwise), and out of the model if it is not
WriteFd(tab, bufs, fd, B) ==
  IF tab[fd].kind = "pipe_w" /\ HasReader(tab, tab[fd].id)
    THEN [bufs EXCEPT ![tab[fd].id] = @ \o B]
    ELSE bufs

(***************************************************************************)
(* captureStderr                                                           *)
(***************************************************************************)
\* captureStderr.__init__: os.pipe(), os.dup(2), os.dup2(pipein, 2), contents = ""
captureStderr_init(tab, np) ==
  LET r == LowestFree(tab)
      tab1 == [tab EXCEPT ![r] = PipeR(np + 1)]
      w == LowestFree(tab1)
      tab2 == [tab1 EXCEPT ![w] = PipeW(np + 1)]
      o == LowestFree(tab2)
      tab3 == [tab2 EXCEPT ![o] = tab2[STDERR]]
      tab4 == [tab3 EXCEPT ![STDERR] = tab3[w]]
  IN [fdt |-> tab4,
      cap |-> [pipeout |-> r, pipein |-> w, oldstderr |-> o, contents |-> <<>>]]

\* captureStderr.checkData: select on pipeout with timeout 0; a pipe is
\* readable when it holds data or has no writer left (end of file)
checkData(tab, bufs, c) ==
  \/ bufs[tab[c.pipeout].id] # <<>>
  \/ ~HasWriter(tab, tab[c.pipeout].id)

\* captureStderr.stopCapture: dup2(oldstderr, 2), close(pipeout), close(pipein)
stopCapture(tab, c) ==
  [tab EXCEPT ![STDERR] = tab[c.oldstderr], ![c.pipeout] = Closed, ![c.pipein] = Closed]

(***************************************************************************)
(* setstripe, one step per statement that touches the process              *)
(***************************************************************************)
\* what the native call may print on descriptor 2
Bytes == {"a", "b"}
Outputs == SeqsUpTo(Bytes, MaxLen)

\* negative returns of llapi_file_open
OpenErrs == {-2, -13}

\* message = captureStderr()
SetstripeCapture(t, limit) ==
  /\ pc[t] = "idle" /\ ncalls[t] < limit
  /\ LET a == captureStderr_init(fdt, npipes)
     IN /\ fdt' = a.fdt
        /\ cap' = [cap EXCEPT ![t] = a.cap]
  /\ npipes' = npipes + 1
  /\ pc' = [pc EXCEPT ![t] = "captured"]
  /\ ncalls' = [ncalls EXCEPT ![t] = @ + 1]
  /\ nacq' = [nacq EXCEPT ![t] = @ + 1]
  /\ op' = [op EXCEPT ![t] = "setstripe"]
  /\ UNCHANGED <<codecVars, py3, pipebuf, nrel, wrote, nat, ret, outcome,
                 lovdata, stripeobj, fid, hsm, natargs>>

\* lustre.llapi_file_open(...) raises before the library is entered: ctypes
\* refuses an argument that does not fit argtypes (ctypes.ArgumentError), as
\* it does for mode = '0700', a str where argtypes asks for c_int
SetstripeNativeRaises(t) ==
  /\ pc[t] = "captured"
  /\ nat' = [nat EXCEPT ![t] = "raised"]
  /\ outcome' = [outcome EXCEPT ![t] = [kind |-> "ArgumentError", errno |-> 0]]
  /\ pc' = [pc EXCEPT ![t] = "exited"]
  /\ UNCHANGED <<codecVars, procVars, cap, wrote, ret, ncalls, nacq, nrel, callVars>>

\* lustre.llapi_file_open(...) prints B on descriptor 2 and returns r < 0
SetstripeNativeFails(t) ==
  /\ pc[t] = "captured"
  /\ \E B \in Outputs, r \in OpenErrs :
       /\ pipebuf' = WriteFd(fdt, pipebuf, STDERR, B)
       /\ wrote' = [wrote EXCEPT ![t] = B]
       /\ ret' = [ret EXCEPT ![t] = r]
  /\ nat' = [nat EXCEPT ![t] = "returned"]
  /\ pc' = [pc EXCEPT ![t] = "called"]
  /\ UNCHANGED <<codecVars, py3, fdt, npipes, cap, outcome, ncalls, nacq, nrel, callVars>>

\* lustre.llapi_file_open(...) prints B on descriptor 2, opens the file and
\* returns its descriptor
SetstripeNativeOpens(t) ==
  /\ pc[t] = "captured"
  /\ \E B \in Outputs :
       /\ pipebuf' = WriteFd(fdt, pipebuf, STDERR, B)
       /\ wrote' = [wrote EXCEPT ![t] = B]
  /\ fdt' = [fdt EXCEPT ![LowestFree(fdt)] = File]
  /\ ret' = [ret EXCEPT ![t] = LowestFree(fdt)]
  /\ nat' = [nat EXCEPT ![t] = "returned"]
  /\ pc' = [pc EXCEPT ![t] = "called"]
  /\ UNCHANGED <<codecVars, py3, npipes, cap, outcome, ncalls, nacq, nrel, callVars>>

\* self.contents += data, contents being a str and data what os.read gave:
\* str under Python 2, bytes under Python 3, where str + bytes is a TypeError
Concat(contents, data) ==
  IF py3 THEN [raised |-> TRUE, contents |-> contents]
         ELSE [raised |-> FALSE, contents |-> contents \o data]

\* readData, one turn of the loop with data pending:
\* self.contents += os.read(self.pipeout, 1024); os.read gives at least one
\* and at most CHUNK of the pending bytes (none at end of file)
SetstripeReadChunk(t) ==
  /\ pc[t] = "called"
  /\ checkData(fdt, pipebuf, cap[t])
  /\ LET p == fdt[cap[t].pipeout].id
     IN \E k \in (IF pipebuf[p] = <<>> THEN {0} ELSE 1 .. Min(CHUNK, Len(pipebuf[p]))) :
          LET c == Concat(cap[t].contents, SubSeq(pipebuf[p], 1, k))
          IN /\ pipebuf' = [pipebuf EXCEPT ![p] = SubSeq(@, k + 1, Len(@))]
             /\ cap' = [cap EXCEPT ![t].contents = c.contents]
             /\ IF c.raised
                  THEN /\ pc' = [pc EXCEPT ![t] = "exited"]
                       /\ outcome' = [outcome EXCEPT ![t] = [kind |-> "TypeError", errno |-> 0]]
                  ELSE UNCHANGED <<pc, outcome>>
  /\ UNCHANGED <<codecVars, py3, fdt, npipes, wrote, nat, ret, ncalls, nacq, nrel, callVars>>

\* readData, the loop ends: checkData() is false
SetstripeReadDone(t) ==
  /\ pc[t] = "called"
  /\ ~checkData(fdt, pipebuf, cap[t])
  /\ pc' = [pc EXCEPT ![t] = "drained"]
  /\ UNCHANGED <<codecVars, procVars, cap, wrote, nat, ret, outcome, ncalls, nacq, nrel, callVars>>

\* message.stopCapture()
SetstripeStopCapture(t) ==
  /\ pc[t] = "drained"
  /\ fdt' = stopCapture(fdt, cap[t])
  /\ pipebuf' = Discard(fdt', pipebuf)
  /\ nrel' = [nrel EXCEPT ![t] = @ + 1]
  /\ pc' = [pc EXCEPT ![t] = "released"]
  /\ UNCHANGED <<codecVars, py3, npipes, cap, wrote, nat, ret, outcome, ncalls, nacq, callVars>>

\* the error translation every wrapper ends with:
\* if err < 0: err = 0 - err; raise IOError(err, os.strerror(err))
Translate(err) ==
  IF err < 0 THEN [kind |-> "IOError", errno |-> 0 - err]
             ELSE [kind |-> "return", errno |-> 0]

\* if fd < 0: raise IOError(0 - fd, ...) else: os.close(fd); return(0)
SetstripeFinish(t) ==
  /\ pc[t] = "released"
  /\ outcome' = [outcome EXCEPT ![t] = Translate(ret[t])]
  /\ fdt' = IF ret[t] < 0 THEN fdt ELSE [fdt EXCEPT ![ret[t]] = Closed]
  /\ pc' = [pc EXCEPT ![t] = "exited"]
  /\ UNCHANGED <<codecVars, py3, pipebuf, npipes, cap, wrote, nat, ret, ncalls, nacq, nrel, callVars>>

\* the caller has the result (or the exception) and goes on; the locals of
\* the finished call are gone
CallerResumes(t) ==
  /\ pc[t] = "exited"
  /\ pc' = [pc EXCEPT ![t] = "idle"]
  /\ cap' = [cap EXCEPT ![t] = NoCap]
  /\ wrote' = [wrote EXCEPT ![t] = <<>>]
  /\ nat' = [nat EXCEPT ![t] = "none"]
  /\ ret' = [ret EXCEPT ![t] = 0]
  /\ outcome' = [outcome EXCEPT ![t] = NoOutcome]
  /\ op' = [op EXCEPT ![t] = "none"]
  /\ lovdata' = NoLov /\ stripeobj' = stripeObj_init
  /\ fid' = NoFid /\ hsm' = NoHsm /\ natargs' = NoArgs
  /\ UNCHANGED <<codecVars, procVars, ncalls, nacq, nrel>>

Setstripe(t, limit) ==
  \/ SetstripeCapture(t, limit)
  \/ SetstripeNativeRaises(t)
  \/ SetstripeNativeFails(t)
  \/ SetstripeNativeOpens(t)
  \/ SetstripeReadChunk(t)
  \/ SetstripeReadDone(t)
  \/ SetstripeStopCapture(t)
  \/ SetstripeFinish(t)
  \/ CallerResumes(t)

(***************************************************************************)
(* Two threads in setstripe                                                *)
(***************************************************************************)
Init ==
  /\ CodecIdle /\ py3 \in BOOLEAN /\ ProcInit /\ ThreadsInit /\ CallInit

Next == \E t \in Threads : Setstripe(t, ConcCalls)

Spec == Init /\ [][Next]_vars

(***************************************************************************)
(* The wrappers that capture nothing: one action each                      *)
(***************************************************************************)
\* what a native call may return
NativeRets == {0 - ENODATA, -13, -2, 0, 1}

OstEntry(idx) == [l_ost_idx |-> idx, l_object_id |-> idx + 1]
ZeroEntry == [l_ost_idx |-> 0, l_object_id |-> 0]

\* what llapi_file_get_stripe may leave in lovdata; lmm_objects lists the
\* entries the library filled in, the rest of the 2000 stay zero
StripeCounts == (-1 .. MaxStripeCount) \cup {LOV_OBJECTS + 1}
LovInputs ==
  [lmm_stripe_size : {0, 1048576},
   lmm_stripe_count : StripeCounts,
   lmm_stripe_offset : {-1, 0, 1},
   lmm_objects : SeqsUpTo({OstEntry(i) : i \in 0 .. MaxOstIdx}, MaxStripeCount)]

\* lovdata.lmm_objects[i], i counted from 0 and below LOV_OBJECTS
lmm_objects_at(lov, i) ==
  IF i < Len(lov.lmm_objects) THEN lov.lmm_objects[i + 1] ELSE ZeroEntry

\* for i in range(0, n): stripeobj.ostobjects.append(lovdata.lmm_objects[i])
Copied(lov, n) == [i \in 1 .. n |-> lmm_objects_at(lov, i - 1)]

\* getstripe with the native offset trusted
getstripe_TrustsOffset(err, lov) ==
  IF err < 0 /\ err # 0 - ENODATA
    THEN [outcome |-> Translate(err), stripeobj |-> stripeObj_init]
  ELSE IF err = 0 - ENODATA
    THEN [outcome |-> [kind |-> "return", errno |-> 0],
          stripeobj |-> [stripeObj_init EXCEPT !.stripecount = 0, !.stripesize = 0,
                                               !.stripeoffset = -1]]
  ELSE [outcome |-> [kind |-> "return", errno |-> 0],
        stripeobj |-> [stripecount |-> lov.lmm_stripe_count,
                       stripesize |-> lov.lmm_stripe_size,
                       stripeoffset |-> lov.lmm_stripe_offset,
                       ostobjects |-> Copied(lov, lov.lmm_stripe_count)]]

\* getstripe with -61 translated like any other negative code
getstripe_NoWorkaround(err, lov) ==
  IF err < 0
    THEN [outcome |-> Translate(err), stripeobj |-> stripeObj_init]
  ELSE [outcome |-> [kind |-> "return", errno |-> 0],
        stripeobj |-> [stripecount |-> lov.lmm_stripe_count,
                       stripesize |-> lov.lmm_stripe_size,
                       stripeoffset |-> IF lov.lmm_stripe_count > 0
                                          THEN lmm_objects_at(lov, 0).l_ost_idx ELSE -1,
                       ostobjects |-> Copied(lov, lov.lmm_stripe_count)]]

\* getstripe after the native call returned err and left lov in lovdata
getstripe(err, lov) ==
  IF err < 0 /\ err # 0 - ENODATA
    THEN [outcome |-> Translate(err), stripeobj |-> stripeObj_init]
  ELSE IF err = 0 - ENODATA
    THEN [outcome |-> [kind |-> "return", errno |-> 0],
          stripeobj |-> [stripeObj_init EXCEPT !.stripecount = 0, !.stripesize = 0,
                                               !.stripeoffset = -1]]
  ELSE IF lov.lmm_stripe_count > LOV_OBJECTS
    \* lmm_objects[2000] is out of range
    THEN [outcome |-> [kind |-> "IndexError", errno |-> 0], stripeobj |-> stripeObj_init]
  ELSE LET ost == Copied(lov, lov.lmm_stripe_count)
       IN [outcome |-> [kind |-> "return", errno |-> 0],
           stripeobj |-> [stripecount |-> lov.lmm_stripe_count,
                          stripesize |-> lov.lmm_stripe_size,
                          stripeoffset |-> IF Len(ost) > 0 THEN ost[1].l_ost_idx ELSE -1,
                          ostobjects |-> ost]]

Finished(t, name, err, out) ==
  /\ pc[t] = "idle"
  /\ pc' = [pc EXCEPT ![t] = "exited"]
  /\ op' = [op EXCEPT ![t] = name]
  /\ nat' = [nat EXCEPT ![t] = "returned"]
  /\ ret' = [ret EXCEPT ![t] = err]
  /\ outcome' = [outcome EXCEPT ![t] = out]
  /\ UNCHANGED <<codecVars, procVars, cap, wrote, ncalls, nacq, nrel>>

Getstripe(t) ==
  \E err \in NativeRets, lov \in LovInputs :
    LET g == getstripe(err, lov)
    IN /\ Finished(t, "getstripe", err, g.outcome)
       /\ lovdata' = lov /\ stripeobj' = g.stripeobj
       /\ fid' = NoFid /\ hsm' = NoHsm /\ natargs' = NoArgs

\* path2fid after llapi_path2fid returned err and filled lufid
path2fid(err, lufid) ==
  IF err < 0 THEN [outcome |-> Translate(err), fid |-> NoFid]
             ELSE [outcome |-> Translate(err),
                   fid |-> [seq |-> lufid.f_seq, oid |-> lufid.f_oid, ver |-> lufid.f_ver]]

Path2fid(t) ==
  \E err \in NativeRets, lufid \in [f_seq : {0, 256}, f_oid : {0, 5}, f_ver : {0, 1}] :
    LET g == path2fid(err, lufid)
    IN /\ Finished(t, "path2fid", err, g.outcome)
       /\ fid' = g.fid
       /\ lovdata' = NoLov /\ stripeobj' = stripeObj_init /\ hsm' = NoHsm /\ natargs' = NoArgs

\* get_hsm_state after llapi_hsm_state_get returned err and filled hus
get_hsm_state(err, hus) ==
  IF err < 0 THEN [outcome |-> Translate(err), hsm |-> NoHsm]
             ELSE [outcome |-> Translate(err),
                   hsm |-> [archive_id |-> hus.hus_archive_id,
                            states |-> HSM_state_init(hus.hus_states)]]

\* what llapi_hsm_state_get may leave in hus
HusInputs == [hus_states : Masks, hus_archive_id : {0, 1}]

GetHsmState(t) ==
  \E err \in NativeRets :
  \E hus \in (IF err < 0 THEN {[hus_states |-> 0, hus_archive_id |-> 0]} ELSE HusInputs) :
    LET g == get_hsm_state(err, hus)
    IN /\ Finished(t, "get_hsm_state", err, g.outcome)
       /\ hsm' = g.hsm
       /\ lovdata' = NoLov /\ stripeobj' = stripeObj_init /\ fid' = NoFid /\ natargs' = NoArgs

\* the flag lists set_hsm_state is given
MaskInputs == SeqsUpTo({"EXISTS", "ARCHIVED"}, MaxFlagsLen)

\* set_hsm_state: the masks handed to llapi_hsm_state_set, and its result err
SetHsmState(t) ==
  \E err \in NativeRets, setmask \in MaskInputs, clearmask \in MaskInputs, archive_id \in {0, 1} :
    /\ Finished(t, "set_hsm_state", err, Translate(err))
    /\ natargs' = [setmask |-> hsm_state_from_flags(setmask),
                   clearmask |-> hsm_state_from_flags(clearmask),
                   archive_id |-> archive_id]
    /\ lovdata' = NoLov /\ stripeobj' = stripeObj_init /\ fid' = NoFid /\ hsm' = NoHsm

(***************************************************************************)
(* One thread calling the operations one after the other                   *)
(***************************************************************************)
\* the thread that makes the calls
Main == CHOOSE t \in Threads : \A u \in Threads : t <= u

NextSingle ==
  \/ Setstripe(Main, MaxCalls)
  \/ Path2fid(Main)
  \/ GetHsmState(Main)
  \/ SetHsmState(Main)

SpecSingle == Init /\ [][NextSingle]_vars

(***************************************************************************)
(* getstripe alone                                                         *)
(***************************************************************************)
NextStripe == Getstripe(Main) \/ CallerResumes(Main)

SpecStripe == Init /\ [][NextStripe]_vars

(* ---- claims about the codec (checked under SpecCodec) ---- *)

\* C1 as stated: for every subset F of the table's names, decoding
\* hsm_state_from_flags(F) yields exactly the set F.
C1_DecodeEncodeIsIdentity ==
  (cpc = "decenc" /\ NoDup(flags) /\ Range(flags) \subseteq FlagNames)
    => (Range(states) = Range(flags) /\ NoDup(states))

\* C1 amended: decoding hsm_state_from_flags(F) yields F without NONE, whose
\* value 0 sets no bit; so exactly F whenever NONE is not in F.
C1_DecodeEncodeDropsNone ==
  (cpc = "decenc" /\ NoDup(flags) /\ Range(flags) \subseteq FlagNames)
    => (Range(states) = Range(flags) \ {"NONE"} /\ NoDup(states))

C1_Witness ==
  /\ cpc = "decenc" /\ NoDup(flags)
  /\ Range(flags) = FlagNames
  /\ Len(states) = Len(HSM_FLAGS) - 1

\* C2 as stated: for every mask M, encoding the names decoded from M yields M.
C2_EncodeDecodeIsIdentity ==
  cpc = "encdec" => state = hus_states

\* C2 amended: encoding the names decoded from M yields M restricted to the
\* bits of the table (M & 0x7f); so M again exactly when M has no other bit.
C2_EncodeDecodeKeepsTableBits ==
  cpc = "encdec" => state = BitAnd(hus_states, AllFlagBits)

C2_Witness ==
  /\ cpc = "encdec"
  /\ hus_states > AllFlagBits
  /\ state # 0 /\ state # hus_states

\* C3: hsm_state_from_flags adds each matched table entry's bit once, however
\* often its name is repeated, and ignores unknown names: the result is the
\* bitwise OR of the matched entries' bits.
C3_EncodeIsOrOfMatched ==
  cpc = "encoded" => state = OrOfMatched(1, flags)

(* ---- claims about getstripe (checked under SpecStripe) ---- *)
NoDataStripe == [stripecount |-> 0, stripesize |-> 0, stripeoffset |-> -1, ostobjects |-> <<>>]

\* C5: when the native call returns -61, getstripe returns a stripe object
\* with stripecount 0, stripesize 0, stripeoffset -1 and no ostobjects; for
\* every other negative return r it raises IOError with errno -r and returns
\* no stripe object.
C5_GetstripeNegativeReturns ==
  \A t \in Threads :
    (pc[t] = "exited" /\ op[t] = "getstripe" /\ ret[t] < 0) =>
      IF ret[t] = 0 - ENODATA
        THEN outcome[t].kind = "return" /\ stripeobj = NoDataStripe
        ELSE outcome[t] = [kind |-> "IOError", errno |-> 0 - ret[t]]

C5_Witness ==
  /\ pc[Main] = "exited" /\ op[Main] = "getstripe"
  /\ ret[Main] = 0 - ENODATA
  /\ lovdata.lmm_stripe_count > 0 /\ lovdata.lmm_objects # <<>>
  /\ outcome[Main].kind = "return"

\* C6: every stripe object getstripe returns has stripeoffset equal to the
\* l_ost_idx of its first ostobjects entry when it has one, whatever
\* lmm_stripe_offset holds, and stripeoffset -1 when it has none.
C6_OffsetIsFirstTarget ==
  \A t \in Threads :
    (pc[t] = "exited" /\ op[t] = "getstripe" /\ outcome[t].kind = "return") =>
      IF stripeobj.ostobjects # <<>>
        THEN /\ stripeobj.stripeoffset = stripeobj.ostobjects[1].l_ost_idx
             /\ stripeobj.ostobjects[1] = lmm_objects_at(lovdata, 0)
        ELSE stripeobj.stripeoffset = -1

C6_Witness ==
  /\ pc[Main] = "exited" /\ op[Main] = "getstripe" /\ outcome[Main].kind = "return"
  /\ Len(stripeobj.ostobjects) > 1
  /\ stripeobj.stripeoffset = 1
  /\ lovdata.lmm_stripe_offset = 0

(* ---- claims about setstripe and the capture (checked under SpecSingle) ---- *)
OpenFds == {f \in FdRange : fdt[f] # Closed}

\* C4: in setstripe stopCapture runs once for each captureStderr() on every
\* exit path, so that whenever setstripe has exited descriptor 2 refers again
\* to the stream it referred to before the call (of which oldstderr is the
\* duplicate).
C4_ReleasedOnEveryExit ==
  \A t \in Threads :
    (pc[t] = "exited" /\ op[t] = "setstripe") =>
      /\ nrel[t] = nacq[t]
      /\ fdt[STDERR] = fdt[cap[t].oldstderr]

\* C7: for setstripe, path2fid, get_hsm_state and set_hsm_state a native
\* return r < 0 always ends in a failure carrying errno -r, and a native
\* return r >= 0 always ends in success.
C7_NativeReturnTranslated ==
  \A t \in Threads :
    (/\ pc[t] = "exited" /\ nat[t] = "returned"
     /\ op[t] \in {"setstripe", "path2fid", "get_hsm_state", "set_hsm_state"}) =>
      IF ret[t] < 0
        THEN outcome[t] = [kind |-> "IOError", errno |-> 0 - ret[t]]
        ELSE outcome[t].kind = "return"

\* C8: for captureStderr() -> the native call writes B to descriptor 2 ->
\* readData -> stopCapture: once readData is over contents equals B, readData
\* never waits (a step of it can always be taken), and after stopCapture
\* descriptor 2 is the stream it was before the capture and not the pipe.
C8_CaptureSequence ==
  \A t \in Threads :
    (op[t] = "setstripe" /\ nat[t] = "returned") =>
      /\ pc[t] \in {"drained", "released", "exited"} => cap[t].contents = wrote[t]
      /\ pc[t] = "called" => ENABLED (SetstripeReadChunk(t) \/ SetstripeReadDone(t))
      /\ pc[t] = "released" =>
           /\ fdt[STDERR] = fdt[cap[t].oldstderr]
           /\ fdt[STDERR] # PipeW(npipes)

\* C10: after any sequence of setstripe calls that each returned or failed
\* with a negative native code (so each passed stopCapture), the open
\* descriptors are those open before the first call.
C10_NoDescriptorLeak ==
  \A t \in Threads :
    (/\ pc[t] = "exited" /\ op[t] = "setstripe"
     /\ outcome[t].kind \in {"return", "IOError"} /\ nrel[t] = nacq[t]) =>
      OpenFds = {f \in FdRange : InitFdt[f] # Closed}

(* ---- the claim about concurrent callers (checked under Spec) ---- *)
Capturing(t) == pc[t] \in {"captured", "called", "drained"}

\* C9: at most one capture is active at any time; so once two concurrent
\* setstripe calls have both finished through stopCapture, descriptor 2 is the
\* original stream and each capture holds the bytes of its own native call.
C9_OneCaptureAtATime ==
  /\ Cardinality({t \in Threads : Capturing(t)}) <= 1
  /\ (\A t \in Threads : pc[t] = "exited" /\ nrel[t] = nacq[t]) =>
       /\ fdt[STDERR] = Tty
       /\ \A t \in Threads : cap[t].contents = wrote[t]

====
